---- MODULE Spec2Model ----
(***************************************************************************)
(* qubovert: the problem-to-model conversion and solution-recovery         *)
(* contract of AlternatingSectorChain                                      *)
(* (qubovert/problems/benchmarking/_alternating_sector_chain.py) and of    *)
(* BILP as exercised by tests/problems/np/test_bilp.py.                    *)
(*                                                                         *)
(* Python sequences are 0-indexed; a TLA+ sequence s models the Python     *)
(* sequence whose element i is s[i+1].  A Python dict is modelled by the   *)
(* sequence of its <<key, value>> items in insertion order.                *)
(***************************************************************************)
EXTENDS Integers, Sequences, FiniteSets, TLC

VARIABLES
    self,     \* the problem instance the caller holds, or None
    given,    \* the constructor arguments that instance was built from
    call      \* the last call: [op, arg, ret, raised]

vars == <<self, given, call>>

None == [type |-> "None"]
NoError == "none"
ValueError == "ValueError"

\* Bounds of the model.
MaxN == 5
MaxChainLength == 3
MaxStrength == 2
MaxLen == 3
MaxVars == 2
MaxCoef == 1

\* Default arguments of AlternatingSectorChain.__init__.
DefaultChainLength == 3
DefaultMinStrength == 1
DefaultMaxStrength == 10

\* The instance of the docstring examples: n, l, min_s, max_s = 6, 3, 1, 5.
ExampleN == 6
ExampleChainLength == 3
ExampleMinStrength == 1
ExampleMaxStrength == 5

\* The fixture of tests/problems/np/test_bilp.py.
FixtureC == <<1, 2, -1>>
FixtureS == <<(<<1, 0, 0>>), (<<0, 1, -1>>)>>
FixtureB == <<0, 1>>
FixtureSolution == <<0, 1, 0>>
FixtureEnergy == 2
\* The penalty weight of problem.to_qubo(10, 1).
TestPenalty == 10

EmptyMap == [k \in {} |-> 0]

Min2(a, b) == IF a <= b THEN a ELSE b
Max2(a, b) == IF a >= b THEN a ELSE b

(***************************************************************************)
(* qubovert.utils.IsingField / IsingCoupling: sparse mappings from a key   *)
(* to a weight.  A coupling key is kept in ascending order; an item        *)
(* assignment stores the weight under that key.                            *)
(***************************************************************************)
IsingField == EmptyMap

IsingCoupling == EmptyMap

CanonicalKey(key) == <<Min2(key[1], key[2]), Max2(key[1], key[2])>>

SetItem(J, key, value) ==
    LET k == CanonicalKey(key)
    IN  [x \in (DOMAIN J) \cup {k} |-> IF x = k THEN value ELSE J[x]]

Indices(J) == UNION {{k[1], k[2]} : k \in DOMAIN J}

SetMax(S) == CHOOSE m \in S : \A x \in S : x <= m

\* The variable count a container implies: one plus the maximum index of a key.
ContainerNumVars(J) == IF Indices(J) = {} THEN 0 ELSE 1 + SetMax(Indices(J))

(***************************************************************************)
(* AlternatingSectorChain.__init__: the fields are assigned first, then    *)
(* the arguments are validated; a raise leaves the caller without an       *)
(* instance.                                                               *)
(***************************************************************************)
InitFields(num_binary_variables, chain_length, min_strength, max_strength) ==
    [type |-> "AlternatingSectorChain",
     N |-> num_binary_variables, chain_length |-> chain_length,
     min_strength |-> -min_strength, max_strength |-> -max_strength]

\* Mutant: a chain length of 1 passes the validation.
InitRaises_ChainLengthOffByOne(num_binary_variables, chain_length, min_strength, max_strength) ==
    IF min_strength < 0 \/ max_strength < 0 THEN TRUE
    ELSE IF num_binary_variables < 1 THEN TRUE
    ELSE IF chain_length < 1 THEN TRUE
    ELSE FALSE

InitRaises(num_binary_variables, chain_length, min_strength, max_strength) ==
    IF min_strength < 0 \/ max_strength < 0 THEN TRUE
    ELSE IF num_binary_variables < 1 THEN TRUE
    ELSE IF chain_length < 2 THEN TRUE
    ELSE FALSE

AlternatingSectorChain(num_binary_variables, chain_length, min_strength, max_strength) ==
    IF InitRaises(num_binary_variables, chain_length, min_strength, max_strength)
    THEN [raised |-> ValueError, ret |-> None]
    ELSE [raised |-> NoError,
          ret |-> InitFields(num_binary_variables, chain_length,
                             min_strength, max_strength)]

num_binary_variables(obj) == obj.N

(***************************************************************************)
(* AlternatingSectorChain.to_ising                                         *)
(***************************************************************************)
\* Mutant: the two strengths swapped between even and odd blocks.
SectorStrength_Swapped(obj, q) ==
    IF (q \div obj.chain_length) % 2 # 0 THEN obj.max_strength
    ELSE obj.min_strength

SectorStrength(obj, q) ==
    IF (q \div obj.chain_length) % 2 # 0 THEN obj.min_strength
    ELSE obj.max_strength

\* Mutant: the loop stops one coupling early, range(self._N-2).
RECURSIVE ChainLoop_ShortRange(_, _, _)
ChainLoop_ShortRange(obj, J, q) ==
    IF q >= obj.N - 2 THEN J
    ELSE ChainLoop_ShortRange(obj, SetItem(J, <<q, q + 1>>, SectorStrength(obj, q)),
                              q + 1)

\* for q in range(self._N-1): J[(q, q+1)] = ...
RECURSIVE ChainLoop(_, _, _)
ChainLoop(obj, J, q) ==
    IF q >= obj.N - 1 THEN J
    ELSE ChainLoop(obj, SetItem(J, <<q, q + 1>>, SectorStrength(obj, q)), q + 1)

\* Mutant: the wraparound coupling takes the strength of block 0.
to_ising_WrapAtZero(obj, pbc) ==
    LET J0 == ChainLoop(obj, IsingCoupling, 0)
        J1 == IF pbc THEN SetItem(J0, <<obj.N - 1, 0>>, SectorStrength(obj, 0))
              ELSE J0
    IN  [h |-> IsingField, J |-> J1, offset |-> 0]

to_ising(obj, pbc) ==
    LET h == IsingField
        J0 == ChainLoop(obj, IsingCoupling, 0)
        J1 == IF pbc
              THEN SetItem(J0, <<obj.N - 1, 0>>, SectorStrength(obj, obj.N - 1))
              ELSE J0
    IN  [h |-> h, J |-> J1, offset |-> 0]

(***************************************************************************)
(* Raw solver assignments: a sequence, or a dict given by its items in     *)
(* insertion order.                                                        *)
(***************************************************************************)
IsDict(solution) == solution.kind = "dict"

Seq_(items) == [kind |-> "seq", items |-> items]

Dict_(items) == [kind |-> "dict", items |-> items]

\* Python's order on the (key, value) items of a dict.
ItemLess(a, b) == a[1] < b[1] \/ (a[1] = b[1] /\ a[2] < b[2])

RECURSIVE InsertSorted(_, _)
InsertSorted(item, s) ==
    IF s = <<>> THEN <<item>>
    ELSE IF ItemLess(item, Head(s)) THEN <<item>> \o s
    ELSE <<Head(s)>> \o InsertSorted(item, Tail(s))

\* Mutant: the items are taken in insertion order.
sorted_Unsorted(items) == items

RECURSIVE sorted(_)
sorted(items) ==
    IF items = <<>> THEN <<>>
    ELSE InsertSorted(Head(items), sorted(Tail(items)))

(***************************************************************************)
(* AlternatingSectorChain.convert_solution                                 *)
(***************************************************************************)
\* Mutant: every positive value is coerced to 1, every other one to -1.
SpinOf_Coerce(x) == IF x > 0 THEN 1 ELSE -1

SpinOf(x) == IF x # 0 THEN x ELSE -1

convert_solution(solution) ==
    LET seq == IF IsDict(solution)
               THEN LET it == sorted(solution.items)
                    IN  [i \in 1..Len(it) |-> it[i][2]]
               ELSE solution.items
    IN  [i \in 1..Len(seq) |-> SpinOf(seq[i])]

(***************************************************************************)
(* AlternatingSectorChain.is_solution_valid                                *)
(***************************************************************************)
\* Mutant: a sequence is compared with -1 instead of "not 1".
is_solution_valid_MinusOne(solution) ==
    LET seq == IF IsDict(solution) THEN convert_solution(solution)
               ELSE solution.items
    IN  (\A i \in 1..Len(seq) : seq[i] = 1) \/ (\A i \in 1..Len(seq) : seq[i] = -1)

is_solution_valid(solution) ==
    LET seq == IF IsDict(solution) THEN convert_solution(solution)
               ELSE solution.items
    IN  (\A i \in 1..Len(seq) : seq[i] = 1) \/ (\A i \in 1..Len(seq) : seq[i] # 1)

(***************************************************************************)
(* The Ising objective of the to_ising docstring:                          *)
(*   sum_{i <= j} z[i] z[j] J[(i, j)] + sum_{i} z[i] h[i] + offset         *)
(***************************************************************************)
RECURSIVE SumOver(_, _)
SumOver(f, keys) ==
    IF keys = {} THEN 0
    ELSE LET k == CHOOSE x \in keys : TRUE
         IN  f[k] + SumOver(f, keys \ {k})

IsingEnergy(ising, z) ==
    LET JTerms == [k \in DOMAIN ising.J |-> ising.J[k] * z[k[1] + 1] * z[k[2] + 1]]
        hTerms == [k \in DOMAIN ising.h |-> ising.h[k] * z[k + 1]]
    IN  SumOver(JTerms, DOMAIN JTerms) + SumOver(hTerms, DOMAIN hTerms)
        + ising.offset

Spins(N) == [1..N -> {-1, 1}]

IsingMinimizers(ising, N) ==
    {z \in Spins(N) : \A w \in Spins(N) : IsingEnergy(ising, z) <= IsingEnergy(ising, w)}

(***************************************************************************)
(* BILP: minimize c^T x subject to S x = b, x binary.                      *)
(***************************************************************************)
RECURSIVE SumSeq(_)
SumSeq(s) == IF s = <<>> THEN 0 ELSE Head(s) + SumSeq(Tail(s))

Abs(a) == IF a < 0 THEN -a ELSE a

Dot(u, v) == SumSeq([i \in 1..Len(u) |-> u[i] * v[i]])

BILPRaises(c, S, b) ==
    \/ \E k \in 1..Len(S) : Len(S[k]) # Len(c)
    \/ Len(S) # Len(b)

BILP(c, S, b) ==
    IF BILPRaises(c, S, b)
    THEN [raised |-> ValueError, ret |-> None]
    ELSE [raised |-> NoError, ret |-> [type |-> "BILP", c |-> c, S |-> S, b |-> b]]

BILP_num_binary_variables(obj) == Len(obj.c)

\* Mutant: the cross terms of the squared violation lose their factor 2.
BILP_to_qubo_NoCrossFactor(obj, penalty) ==
    LET n == Len(obj.c)
        m == Len(obj.S)
        Linear(i) ==
            obj.c[i] + penalty * SumSeq([k \in 1..m |->
                obj.S[k][i] * obj.S[k][i] - 2 * obj.b[k] * obj.S[k][i]])
        Quadratic(i, j) ==
            penalty * SumSeq([k \in 1..m |-> obj.S[k][i] * obj.S[k][j]])
        keys == {k \in (0..(n - 1)) \X (0..(n - 1)) : k[1] <= k[2]}
    IN  [Q |-> [k \in keys |-> IF k[1] = k[2] THEN Linear(k[1] + 1)
                                ELSE Quadratic(k[1] + 1, k[2] + 1)],
         offset |-> penalty * SumSeq([k \in 1..m |-> obj.b[k] * obj.b[k]])]

\* c^T x + penalty * ||S x - b||^2 expanded into binary coefficients
\* (x_i^2 = x_i): the linear ones on the diagonal keys (i, i), the quadratic
\* ones on the keys (i, j), i < j, and the constant in the offset.
BILP_to_qubo(obj, penalty) ==
    LET n == Len(obj.c)
        m == Len(obj.S)
        Linear(i) ==
            obj.c[i] + penalty * SumSeq([k \in 1..m |->
                obj.S[k][i] * obj.S[k][i] - 2 * obj.b[k] * obj.S[k][i]])
        Quadratic(i, j) ==
            2 * penalty * SumSeq([k \in 1..m |-> obj.S[k][i] * obj.S[k][j]])
        keys == {k \in (0..(n - 1)) \X (0..(n - 1)) : k[1] <= k[2]}
    IN  [Q |-> [k \in keys |-> IF k[1] = k[2] THEN Linear(k[1] + 1)
                                ELSE Quadratic(k[1] + 1, k[2] + 1)],
         offset |-> penalty * SumSeq([k \in 1..m |-> obj.b[k] * obj.b[k]])]

\* The penalty must be large enough that any constraint violation costs more
\* than the best feasible objective difference.
LargeEnough(obj, penalty) ==
    penalty > SumSeq([i \in 1..Len(obj.c) |-> Abs(obj.c[i])])

BILP_convert_solution(solution) == solution

BILP_is_solution_valid(obj, solution) ==
    \A k \in 1..Len(obj.S) : Dot(obj.S[k], BILP_convert_solution(solution)) = obj.b[k]

(***************************************************************************)
(* The bruteforce QUBO solver: an assignment of least energy, and that     *)
(* energy (offset included).                                               *)
(***************************************************************************)
Bits(n) == [1..n -> {0, 1}]

QuboEnergy(qubo, x) ==
    LET terms == [k \in DOMAIN qubo.Q |-> qubo.Q[k] * x[k[1] + 1] * x[k[2] + 1]]
    IN  SumOver(terms, DOMAIN terms) + qubo.offset

solve_qubo_bruteforce(qubo, n) ==
    {[e |-> QuboEnergy(qubo, x), sol |-> x] :
        x \in {y \in Bits(n) : \A w \in Bits(n) :
                    QuboEnergy(qubo, y) <= QuboEnergy(qubo, w)}}

(***************************************************************************)
(* Inputs                                                                  *)
(***************************************************************************)
\* What a solver returns for N variables: a binary or a spin vector.
SolverOutputs(N) ==
    {Seq_(s) : s \in [1..N -> {0, 1}] \cup [1..N -> {-1, 1}]}

\* Raw values, 2 standing for a value outside both domains.
RawValues == {-1, 0, 1, 2}

RawSequences == {Seq_(s) : s \in UNION {[1..n -> RawValues] : n \in 0..MaxLen}}

KeyOrders(n) ==
    {p \in [1..n -> 0..(MaxLen - 1)] : \A i, j \in 1..n : p[i] = p[j] => i = j}

RawDicts ==
    UNION {{Dict_([i \in 1..n |-> <<p[i], v[i]>>]) :
                p \in KeyOrders(n), v \in [1..n -> RawValues]} : n \in 0..MaxLen}

RawSolutions == RawSequences \cup RawDicts

\* BILP instances: up to MaxVars variables, at most as many constraints as the
\* fixture, 0/1 constraint coefficients.
Vectors(n, values) == [1..n -> values]

BILPInputs ==
    UNION {{[c |-> c, S |-> S, b |-> b] :
                c \in Vectors(n, (-1)..MaxCoef),
                S \in Vectors(m, Vectors(n, {0, 1})),
                b \in Vectors(m, {0, 1})} :
           n \in 1..MaxVars, m \in 1..Len(FixtureB)}

Fixture == [c |-> FixtureC, S |-> FixtureS, b |-> FixtureB]

\* The arguments themselves, and the mismatched ones of test_errors.
BILPArguments(in) ==
    {in, [in EXCEPT !.b = Append(in.b, 0)], [in EXCEPT !.c = Append(in.c, 0)]}
    \cup (IF Len(in.c) # 1 THEN {[in EXCEPT !.c = <<in.c>>]} ELSE {})

IsChain == self.type = "AlternatingSectorChain"

Call(op, arg, ret, raised) == [op |-> op, arg |-> arg, ret |-> ret, raised |-> raised]

NoCall == Call("none", None, None, NoError)

\* The caller is between two calls.
Idle == call.op = "none"

(***************************************************************************)
(* Operations                                                              *)
(***************************************************************************)
Init ==
    /\ self = None
    /\ given = None
    /\ call = NoCall

Construct(Ns, Ls, MinS, MaxS) ==
    /\ Idle
    /\ self = None
    /\ \E n \in Ns, l \in Ls, mn \in MinS, mx \in MaxS :
           LET r == AlternatingSectorChain(n, l, mn, mx)
               a == [num_binary_variables |-> n, chain_length |-> l,
                     min_strength |-> mn, max_strength |-> mx]
           IN  /\ call' = Call("__init__", a, r.ret, r.raised)
               /\ IF r.raised = NoError
                  THEN self' = r.ret /\ given' = a
                  ELSE UNCHANGED <<self, given>>

ConstructAny ==
    Construct(0..MaxN, 1..MaxChainLength, (-1)..MaxStrength, (-1)..MaxStrength)

ConstructDefault ==
    Construct(0..MaxN, {DefaultChainLength}, {DefaultMinStrength},
              {DefaultMaxStrength})

ConstructExample ==
    Construct({ExampleN}, {ExampleChainLength}, {ExampleMinStrength},
              {ExampleMaxStrength})

NumBinaryVariables ==
    /\ Idle
    /\ IsChain
    /\ call' = Call("num_binary_variables", None,
                    [num |-> num_binary_variables(self)], NoError)
    /\ UNCHANGED <<self, given>>

ToIsing ==
    /\ Idle
    /\ IsChain
    /\ UNCHANGED <<self, given>>
    /\ \E pbc \in BOOLEAN :
           call' = Call("to_ising", [pbc |-> pbc], to_ising(self, pbc), NoError)

ConvertSolution(inputs) ==
    /\ Idle
    /\ IsChain
    /\ UNCHANGED <<self, given>>
    /\ \E solution \in inputs :
           call' = Call("convert_solution", solution,
                        [native |-> convert_solution(solution)], NoError)

IsSolutionValid(inputs) ==
    /\ Idle
    /\ IsChain
    /\ UNCHANGED <<self, given>>
    /\ \E solution \in inputs :
           call' = Call("is_solution_valid", solution,
                        [valid |-> is_solution_valid(solution)], NoError)

ConvertSolverOutput == ConvertSolution(SolverOutputs(self.N))

ValidateSolverOutput == IsSolutionValid(SolverOutputs(self.N))

ConvertRaw == ConvertSolution(RawSolutions)

ValidateRaw == IsSolutionValid(RawSolutions)

IsBILP == self.type = "BILP"

ConstructBILP(inputs) ==
    /\ Idle
    /\ self = None
    /\ \E in \in inputs : \E a \in BILPArguments(in) :
           LET r == BILP(a.c, a.S, a.b)
           IN  /\ call' = Call("BILP", a, r.ret, r.raised)
               /\ IF r.raised = NoError
                  THEN self' = r.ret /\ given' = a
                  ELSE UNCHANGED <<self, given>>

ConstructBILPAny == ConstructBILP(BILPInputs)

ConstructBILPFixture == ConstructBILP({Fixture})

Penalties(obj) ==
    {p \in {TestPenalty, 1 + SumSeq([i \in 1..Len(obj.c) |-> Abs(obj.c[i])])} :
        LargeEnough(obj, p)}

BILPNumBinaryVariables ==
    /\ Idle
    /\ IsBILP
    /\ call' = Call("num_binary_variables", None,
                    [num |-> BILP_num_binary_variables(self)], NoError)
    /\ UNCHANGED <<self, given>>

ToQubo ==
    /\ Idle
    /\ IsBILP
    /\ UNCHANGED <<self, given>>
    /\ \E p \in Penalties(self) :
           call' = Call("to_qubo", [penalty |-> p], BILP_to_qubo(self, p), NoError)

\* e, sol = solve_qubo_bruteforce(problem.to_qubo())
SolveQubo ==
    /\ Idle
    /\ IsBILP
    /\ UNCHANGED <<self, given>>
    /\ \E p \in Penalties(self) :
           LET qubo == BILP_to_qubo(self, p)
           IN  \E r \in solve_qubo_bruteforce(qubo, BILP_num_binary_variables(self)) :
                   call' = Call("solve_qubo_bruteforce", qubo, r, NoError)

BILPConvertSolution ==
    /\ Idle
    /\ IsBILP
    /\ UNCHANGED <<self, given>>
    /\ \E x \in Bits(BILP_num_binary_variables(self)) :
           call' = Call("convert_solution", Seq_(x),
                        [native |-> BILP_convert_solution(x)], NoError)

BILPIsSolutionValid ==
    /\ Idle
    /\ IsBILP
    /\ UNCHANGED <<self, given>>
    /\ \E x \in Bits(BILP_num_binary_variables(self)) :
           call' = Call("is_solution_valid", Seq_(x),
                        [valid |-> BILP_is_solution_valid(self, x)], NoError)

\* The caller takes the result of the call and goes on.
Return ==
    /\ ~Idle
    /\ call' = NoCall
    /\ UNCHANGED <<self, given>>

\* Construction, conversion and decoding of solver outputs.
Next ==
    \/ Return
    \/ ConstructAny
    \/ ConstructExample
    \/ NumBinaryVariables
    \/ ToIsing
    \/ ConvertSolverOutput
    \/ ValidateSolverOutput
    \/ ConstructBILPAny
    \/ ConstructBILPFixture
    \/ BILPNumBinaryVariables
    \/ ToQubo
    \/ SolveQubo
    \/ BILPConvertSolution
    \/ BILPIsSolutionValid

Spec == Init /\ [][Next]_vars

\* Decoding of arbitrary raw assignments by a chain built with the defaults.
NextDecode ==
    \/ Return
    \/ ConstructDefault
    \/ NumBinaryVariables
    \/ ConvertRaw
    \/ ValidateRaw

SpecDecode == Init /\ [][NextDecode]_vars

(***************************************************************************)
(* Properties of to_ising                                                  *)
(***************************************************************************)
IsToIsing == call.op = "to_ising"

\* The block rule in terms of the constructor's arguments.
BlockWeight(i) ==
    IF (i \div given.chain_length) % 2 = 0 THEN -given.max_strength
    ELSE -given.min_strength

PathKeys(N) == {<<i, i + 1>> : i \in 0..(N - 2)}

IsExample ==
    given = [num_binary_variables |-> ExampleN, chain_length |-> ExampleChainLength,
             min_strength |-> ExampleMinStrength, max_strength |-> ExampleMaxStrength]

ExampleOpenJ ==
    (<<0, 1>> :> 5) @@ (<<1, 2>> :> 5) @@ (<<2, 3>> :> 5) @@ (<<3, 4>> :> 1)
    @@ (<<4, 5>> :> 1)

\* C2: for N=6, chain_length=3, min_strength=1, max_strength=5, to_ising(pbc=False)
\* returns couplings {(0,1):5, (1,2):5, (2,3):5, (3,4):1, (4,5):1} with an empty
\* field and offset 0, and to_ising(pbc=True) the same plus the coupling of
\* 5 and 0 with weight 1.
C2_DocstringExample ==
    (IsToIsing /\ IsExample) =>
        /\ call.ret.h = EmptyMap
        /\ call.ret.offset = 0
        /\ call.ret.J = IF call.arg.pbc THEN ExampleOpenJ @@ (CanonicalKey(<<5, 0>>) :> 1)
                        ELSE ExampleOpenJ

C10_GroundStatesAreAllEqual ==
    IsToIsing =>
        LET N == given.num_binary_variables
            ground == IsingMinimizers(call.ret, N)
        IN  \A z \in Spins(N) : (z \in ground) <=> is_solution_valid(Seq_(z))

(***************************************************************************)
(* Properties of construction                                              *)
(***************************************************************************)
InvalidChainArguments(a) ==
    \/ a.num_binary_variables < 1
    \/ a.chain_length < 2
    \/ a.min_strength < 0
    \/ a.max_strength < 0

MismatchedBILPArguments(a) ==
    \/ Len(a.S[1]) # Len(a.c)
    \/ Len(a.S) # Len(a.b)

\* C5: construction with invalid parameters fails with a value error and yields
\* no instance: the chain when num_binary_variables < 1, chain_length < 2 or a
\* strength is negative; BILP when the column count of S differs from the
\* length of c or the row count of S from the length of b.
C5_InvalidConstructionRaises ==
    /\ (call.op = "__init__" /\ InvalidChainArguments(call.arg)) =>
           (call.raised = ValueError /\ call.ret = None /\ self = None)
    /\ (call.op = "BILP" /\ MismatchedBILPArguments(call.arg)) =>
           (call.raised = ValueError /\ call.ret = None /\ self = None)

\* A chain refused for its chain length alone.
C5_Witness ==
    /\ call.op = "__init__"
    /\ call.arg.chain_length = 1
    /\ call.arg.num_binary_variables >= 1
    /\ call.arg.min_strength >= 0 /\ call.arg.max_strength >= 0
    /\ call.raised = ValueError
    /\ self = None

(***************************************************************************)
(* Properties of the variable count                                        *)
(***************************************************************************)
Container == IF IsToIsing THEN call.ret.J ELSE call.ret.Q

InstanceNumVars ==
    IF IsChain THEN num_binary_variables(self) ELSE BILP_num_binary_variables(self)

GivenNumVars == IF IsChain THEN given.num_binary_variables ELSE Len(given.c)

Feasible(obj) ==
    {x \in Bits(Len(obj.c)) : \A k \in 1..Len(obj.S) : Dot(obj.S[k], x) = obj.b[k]}

\* C6: for a BILP instance with a feasible solution, minimizing the energy of
\* to_qubo() exhaustively yields an assignment whose convert_solution is a
\* feasible optimum, which is_solution_valid accepts, and whose energy is the
\* objective value c^T x; for the fixture c=[1,2,-1], S=[[1,0,0],[0,1,-1]],
\* b=[0,1] the solution is [0,1,0] with energy 2.
C6_QuboRoundTrip ==
    (call.op = "solve_qubo_bruteforce" /\ Feasible(self) # {}) =>
        LET conv == BILP_convert_solution(call.ret.sol)
        IN  /\ conv \in Feasible(self)
            /\ \A x \in Feasible(self) : Dot(self.c, conv) <= Dot(self.c, x)
            /\ BILP_is_solution_valid(self, conv)
            /\ BILP_is_solution_valid(self, call.ret.sol)
            /\ call.ret.e = Dot(self.c, conv)
            /\ given = Fixture =>
                  (conv = FixtureSolution /\ call.ret.e = FixtureEnergy)

\* The fixture solved: the constraints exclude the assignment of least c^T x.
C6_Witness ==
    /\ call.op = "solve_qubo_bruteforce"
    /\ given = Fixture
    /\ call.ret.sol = FixtureSolution
    /\ \E x \in Bits(Len(self.c)) :
           x \notin Feasible(self) /\ Dot(self.c, x) < Dot(self.c, call.ret.sol)

(***************************************************************************)
(* Properties of decoding                                                  *)
(***************************************************************************)
\* The values of a raw assignment, and its value at a variable index.
RawValuesOf(solution) ==
    IF IsDict(solution) THEN {solution.items[i][2] : i \in 1..Len(solution.items)}
    ELSE {solution.items[i] : i \in 1..Len(solution.items)}

\* A binary 0 read as the spin -1.
ReadAsSpin(v) == IF v = 0 THEN -1 ELSE v

\* The position of key k among the keys of a dict in ascending order.
Rank(solution, k) ==
    1 + Cardinality({i \in 1..Len(solution.items) : solution.items[i][1] < k})

\* The values of a raw assignment read as spins, in ascending key order.
IsDecodingOf(native, solution) ==
    /\ Len(native) = Len(solution.items)
    /\ IF IsDict(solution)
       THEN \A i \in 1..Len(solution.items) :
                native[Rank(solution, solution.items[i][1])]
                    = ReadAsSpin(solution.items[i][2])
       ELSE \A i \in 1..Len(solution.items) :
                native[i] = ReadAsSpin(solution.items[i])

Permutations_(n) == {p \in [1..n -> 1..n] : \A i, j \in 1..n : p[i] = p[j] => i = j}

Reorderings(solution) ==
    {Dict_([i \in 1..Len(solution.items) |-> solution.items[p[i]]]) :
        p \in Permutations_(Len(solution.items))}

\* C3: is_solution_valid, given a sequence or a mapping, is true iff every spin
\* equals +1 or every spin equals -1, a binary 0 being read as spin -1; it is
\* true for the all-zero and the all-one vector and false for every vector
\* containing both a 0 and a 1.
C3_ValidIffAllSpinsEqual ==
    (IsChain /\ call.op = "is_solution_valid"
        /\ RawValuesOf(call.arg) \subseteq {-1, 0, 1}) =>
        LET spins == {ReadAsSpin(v) : v \in RawValuesOf(call.arg)}
        IN  /\ call.ret.valid <=> (spins \subseteq {1} \/ spins \subseteq {-1})
            /\ RawValuesOf(call.arg) \in {{0}, {1}} => call.ret.valid
            /\ {0, 1} \subseteq RawValuesOf(call.arg) => ~call.ret.valid

\* A mapping of zeros and minus ones, inserted out of key order, found valid.
C3_Witness ==
    /\ IsChain /\ call.op = "is_solution_valid"
    /\ IsDict(call.arg)
    /\ RawValuesOf(call.arg) = {0, -1}
    /\ \E i \in 1..(Len(call.arg.items) - 1) :
           call.arg.items[i][1] > call.arg.items[i + 1][1]
    /\ call.ret.valid

Malformed(solution, N) ==
    \/ Len(solution.items) # N
    \/ \E v \in RawValuesOf(solution) : v \notin {0, 1} /\ v \notin {-1, 1}

\* C8 as stated: convert_solution and is_solution_valid raise an error when
\* given a malformed raw assignment.
C8_MalformedInputRaises ==
    (IsChain /\ call.op \in {"convert_solution", "is_solution_valid"}
        /\ Malformed(call.arg, self.N)) => call.raised # NoError

\* C8 amended: given a malformed raw assignment neither call raises;
\* convert_solution returns the values in ascending key order with 0 replaced
\* by -1 and every other value unchanged, whatever the length, and
\* is_solution_valid returns whether all values are 1 or none is.
C8_MalformedInputIsDecoded ==
    (IsChain /\ call.op \in {"convert_solution", "is_solution_valid"}
        /\ Malformed(call.arg, self.N)) =>
        /\ call.raised = NoError
        /\ call.op = "convert_solution" => IsDecodingOf(call.ret.native, call.arg)
        /\ call.op = "is_solution_valid" =>
              (call.ret.valid <=> (RawValuesOf(call.arg) \subseteq {1}
                                     \/ 1 \notin RawValuesOf(call.arg)))

\* An assignment of the wrong length holding an out-of-domain value, converted.
C8_Witness ==
    /\ IsChain /\ call.op = "convert_solution"
    /\ Len(call.arg.items) # self.N
    /\ 2 \in RawValuesOf(call.arg)
    /\ call.raised = NoError
    /\ \E i \in 1..Len(call.ret.native) : call.ret.native[i] = 2

====
